---- MODULE Spec2Model ----
(***************************************************************************)
(* Model of the rn time formatter (src/src/formatter and the presets of    *)
(* src/src/main.rs): TimeFormatter::new, TimeFormatter::render,            *)
(* Segment::render, TimeUnit::render and ValueDisplay::fmt, over the exact *)
(* Ratio<u64> arithmetic the code uses.                                    *)
(*                                                                         *)
(* Text is a sequence of one-character strings.  A u64 is a pair           *)
(* <<hi, lo>> standing for hi * 2^30 + lo, so that the products the code   *)
(* forms (81 * ms, denom * limit) are exact although they exceed the       *)
(* range of the model checker's integers.                                  *)
(***************************************************************************)
EXTENDS Integers, Sequences, FiniteSets, TLC

(***************************************************************************)
(* u64 arithmetic                                                          *)
(***************************************************************************)

\* The weight of the high limb of a u64 <<hi, lo>>.
Limb == 2^30

\* Half a limb: two factors below it have a product below Limb.
HalfLimb == 2^15

\* `x as u64` of a u32 value x.
u64(x) == <<x \div Limb, x % Limb>>

\* The integer a small u64 stands for (only used where the value is known
\* to be below 2^30: digits, widths and lengths).
u64_to_int(a) == a[2]

u64_is_zero(a) == a[1] = 0 /\ a[2] = 0

u64_lt(a, b) == a[1] < b[1] \/ (a[1] = b[1] /\ a[2] < b[2])

u64_add(a, b) ==
    LET lo == a[2] + b[2]
    IN  <<a[1] + b[1] + (lo \div Limb), lo % Limb>>

\* a - b, for b <= a.
u64_sub(a, b) ==
    IF a[2] >= b[2]
    THEN <<a[1] - b[1], a[2] - b[2]>>
    ELSE <<a[1] - b[1] - 1, a[2] + Limb - b[2]>>

\* a * 2^15.
u64_shl15(a) ==
    <<a[1] * HalfLimb + (a[2] \div HalfLimb), (a[2] % HalfLimb) * HalfLimb>>

\* a * k for 0 <= k < 2^15, by the halves of the low limb.
u64_mul_half(a, k) ==
    u64_add(<<a[1] * k, (a[2] % HalfLimb) * k>>,
            u64_shl15(<<0, (a[2] \div HalfLimb) * k>>))

\* a * k for 0 <= k < 2^30, by the halves of k.
u64_mul_limb(a, k) ==
    IF k < HalfLimb THEN u64_mul_half(a, k)
    ELSE u64_add(u64_shl15(u64_mul_half(a, k \div HalfLimb)),
                 u64_mul_half(a, k % HalfLimb))

\* a * b: one of the two factors fits one limb in every product the
\* formatter forms.
u64_mul(a, b) ==
    IF b[1] = 0 THEN u64_mul_limb(a, b[2]) ELSE u64_mul_limb(b, a[2])

\* Quotient and remainder of a by b > 0.  Two one-limb values divide as
\* integers.  A one-limb b divides hi * 2^30 + lo through
\* 2^30 = Q * b + R: the quotient is hi * Q plus that of hi * R + lo.
\* A two-limb b, whose quotient is small, divides by doubling.
RECURSIVE u64_divrem(_, _)
u64_divrem(a, b) ==
    IF a[1] = 0 /\ b[1] = 0
    THEN [q |-> <<0, a[2] \div b[2]>>, r |-> <<0, a[2] % b[2]>>]
    ELSE IF u64_lt(a, b) THEN [q |-> <<0, 0>>, r |-> a]
    ELSE IF b[1] = 0
    THEN LET s == u64_divrem(u64_add(u64_mul_limb(<<0, a[1]>>, Limb % b[2]),
                                     <<0, a[2]>>), b)
         IN  [q |-> u64_add(u64_mul(<<0, a[1]>>, u64(Limb \div b[2])), s.q),
              r |-> s.r]
    ELSE LET s == u64_divrem(a, u64_add(b, b))
             q2 == u64_add(s.q, s.q)
         IN  IF u64_lt(s.r, b)
             THEN [q |-> q2, r |-> s.r]
             ELSE [q |-> u64_add(q2, <<0, 1>>), r |-> u64_sub(s.r, b)]

u64_div(a, b) == u64_divrem(a, b).q

u64_rem(a, b) == u64_divrem(a, b).r

\* Integer::gcd for u64.
RECURSIVE gcd(_, _)
gcd(a, b) == IF u64_is_zero(b) THEN a ELSE gcd(b, u64_rem(a, b))

(***************************************************************************)
(* num::rational::Ratio<u64>, as used by the formatter                     *)
(***************************************************************************)

\* Ratio::new(numer, denom) for denom /= 0: the fraction in lowest terms
\* (zero is 0/1).  A zero denominator panics; the callers test for it.
Ratio_new(numer, denom) ==
    IF u64_is_zero(numer) THEN [numer |-> <<0, 0>>, denom |-> <<0, 1>>]
    ELSE LET g == gcd(numer, denom)
         IN  [numer |-> u64_div(numer, g), denom |-> u64_div(denom, g)]

\* Ratio * u64 (`self.base * ms as u64`).
Ratio_mul(r, rhs) ==
    LET g == gcd(r.denom, rhs)
    IN  Ratio_new(u64_mul(r.numer, u64_div(rhs, g)), u64_div(r.denom, g))

\* Ratio / u64 for rhs /= 0 (`total / u.value as u64`).
Ratio_div(r, rhs) ==
    LET g == gcd(r.numer, rhs)
    IN  Ratio_new(u64_div(r.numer, g), u64_mul(r.denom, u64_div(rhs, g)))

\* Ratio % u64 with the modulus not scaled by the denominator: the
\* remainder of the numerator by rhs alone.
Ratio_rem_unscaled(r, rhs) ==
    Ratio_new(u64_rem(r.numer, rhs), r.denom)

\* Ratio % u64 for rhs /= 0 (`... % u.limit as u64`): the remainder of the
\* numerator by denom * rhs, over the same denominator.
Ratio_rem(r, rhs) ==
    Ratio_new(u64_rem(r.numer, u64_mul(r.denom, rhs)), r.denom)

(***************************************************************************)
(* unit.rs: TimeUnit, ValueDisplay                                         *)
(***************************************************************************)

\* Default padding width.
DEFAULT_WIDTH == 2

\* TimeUnit::with_radix: stores its arguments, checks nothing.
TimeUnit_with_radix(radix, name, value, limit, width) ==
    [radix |-> radix, name |-> name, value |-> value, limit |-> limit,
     width |-> width]

\* TimeUnit::new: radix 10.
TimeUnit_new(name, value, limit, width) ==
    TimeUnit_with_radix(10, name, value, limit, width)

\* From<(u8, &str, u32, u32)>: the default width.
TimeUnit_from4(radix, name, value, limit) ==
    TimeUnit_with_radix(radix, name, value, limit, DEFAULT_WIDTH)

\* From<(u8, &str, u32, u32, usize)>.
TimeUnit_from5(radix, name, value, limit, width) ==
    TimeUnit_with_radix(radix, name, value, limit, width)

\* The digit alphabet of radix_fmt (lower case).
DigitChars ==
    <<"0", "1", "2", "3", "4", "5", "6", "7", "8", "9",
      "a", "b", "c", "d", "e", "f", "g", "h", "i", "j", "k", "l", "m",
      "n", "o", "p", "q", "r", "s", "t", "u", "v", "w", "x", "y", "z">>

\* The digit characters in upper case (the `{:#}` form of radix_fmt).
digit_upper_case(x) ==
    IF x < 10 THEN DigitChars[x + 1]
    ELSE <<"A", "B", "C", "D", "E", "F", "G", "H", "I", "J", "K", "L", "M",
           "N", "O", "P", "Q", "R", "S", "T", "U", "V", "W", "X", "Y", "Z">>[x - 9]

\* The character of one digit value 0..35.
digit(x) == DigitChars[x + 1]

\* radix_fmt::radix(x, base).to_string() for base in 2..36: the digits of
\* the u64 x, most significant first; zero is "0".
RECURSIVE radix(_, _)
radix(x, base) ==
    LET s == u64_divrem(x, u64(base))
    IN  IF u64_is_zero(s.q)
        THEN <<digit(u64_to_int(s.r))>>
        ELSE Append(radix(s.q, base), digit(u64_to_int(s.r)))

\* width - len zeros.
RECURSIVE zeros(_)
zeros(n) == IF n <= 0 THEN <<>> ELSE <<"0">> \o zeros(n - 1)

\* Padding with the width as a cap: the last width characters of a longer
\* buffer.
pad_integral_truncating(buf, width) ==
    IF Len(buf) >= width THEN SubSeq(buf, Len(buf) - width + 1, Len(buf))
    ELSE zeros(width - Len(buf)) \o buf

\* Formatter::pad_integral(true, "", buf) under "{:0width$}": zeros on the
\* left up to width, never a cut.
pad_integral(buf, width) ==
    IF Len(buf) >= width THEN buf ELSE zeros(width - Len(buf)) \o buf

\* The value rounded to the nearest integer instead of truncated.
ValueDisplay_int_rounded(value) ==
    u64_div(u64_add(value.numer, u64_div(value.denom, u64(2))), value.denom)

\* The integer ValueDisplay::fmt hands to radix_fmt:
\* numer.saturating_div(denom).
ValueDisplay_int(value) == u64_div(value.numer, value.denom)

\* ValueDisplay::fmt, for a radix in 2..36.
ValueDisplay_fmt(rdx, value, width) ==
    pad_integral(radix(ValueDisplay_int(value), rdx), width)

\* The result of a call: its text, or a panic.
Ok(text) == [ok |-> TRUE, text |-> text]

Panic == [ok |-> FALSE, text |-> <<>>]

\* TimeUnit::render: radix_fmt::radix panics for a base outside 2..=36.
TimeUnit_render(u, value) ==
    IF u.radix < 2 \/ u.radix > 36 THEN Panic
    ELSE Ok(ValueDisplay_fmt(u.radix, value, u.width))

(***************************************************************************)
(* segment.rs: Segment                                                     *)
(***************************************************************************)

Literal(s) == [kind |-> "Literal", text |-> s]

Value(u) == [kind |-> "Value", unit |-> u]

\* The two operators applied in the other order: the remainder by the
\* limit first, the division by the value afterwards.
Segment_value_rem_first(u, total) ==
    Ratio_div(Ratio_rem(total, u64(u.limit)), u64(u.value))

\* The Ratio a Value segment passes to TimeUnit::render:
\* total / u.value as u64 % u.limit as u64, for value and limit /= 0.
Segment_value(u, total) ==
    Ratio_rem(Ratio_div(total, u64(u.value)), u64(u.limit))

\* Segment::render.  Ratio / 0 and Ratio % 0 panic.
Segment_render(seg, total) ==
    IF seg.kind = "Literal" THEN Ok(seg.text)
    ELSE IF seg.unit.value = 0 THEN Panic
    ELSE IF seg.unit.limit = 0 THEN Panic
    ELSE TimeUnit_render(seg.unit, Segment_value(seg.unit, total))

(***************************************************************************)
(* mod.rs: TimeFormatter                                                   *)
(***************************************************************************)

\* TimeFormatter::new, for a base with a denominator /= 0.
TimeFormatter_new(n, d, spec) ==
    [base |-> Ratio_new(u64(n), u64(d)), segments |-> spec]

\* `self.base * ms as u64`.
TimeFormatter_total(f, m) == Ratio_mul(f.base, u64(m))

\* The loop of TimeFormatter::render over segments i..: a panic in any
\* segment is a panic of the call.
RECURSIVE render_from(_, _, _)
render_from(segments, total, i) ==
    IF i > Len(segments) THEN Ok(<<>>)
    ELSE LET r == Segment_render(segments[i], total)
         IN  IF ~r.ok THEN Panic
             ELSE LET rest == render_from(segments, total, i + 1)
                  IN  IF rest.ok THEN Ok(r.text \o rest.text) ELSE Panic

\* TimeFormatter::render.
TimeFormatter_render(f, m) ==
    render_from(f.segments, TimeFormatter_total(f, m), 1)

(***************************************************************************)
(* The formatters the repository constructs                                *)
(***************************************************************************)

Config(n, d, spec) == [n |-> n, d |-> d, spec |-> spec]

\* mod.rs, test construct_hms_ms.
si_time_units ==
    Config(1, 1,
        <<Value(TimeUnit_from4(10, "hour", 3600000, 24)),
          Literal(<<":">>),
          Value(TimeUnit_from4(10, "minute", 60000, 60)),
          Literal(<<":">>),
          Value(TimeUnit_from4(10, "second", 1000, 60)),
          Literal(<<".">>),
          Value(TimeUnit_from5(10, "millisecond", 1, 1000, 0))>>)

\* main.rs.
misalian_kunimunean_time_formatter ==
    Config(36 * 36 * 36 * 6, 86400000,
        <<Value(TimeUnit_from4(6, "lapse", 7776, 36)),
          Literal(<<":">>),
          Value(TimeUnit_from4(6, "lull", 216, 36)),
          Literal(<<":">>),
          Value(TimeUnit_from4(6, "moment", 6, 36)),
          Literal(<<".">>),
          Value(TimeUnit_from5(6, "snap", 1, 6, 0))>>)

mk_span_time_formatter ==
    Config(36 * 36 * 36 * 6, 86400000,
        <<Value(TimeUnit_from5(6, "span", 1296, 1296, 3))>>)

\* The snap formatter padded to six digits, one short of 36 * 36 * 36 * 6.
mk_snap_time_formatter_six_wide ==
    Config(36 * 36 * 36 * 6, 86400000,
        <<Value(TimeUnit_from5(6, "snap", 1, 36 * 36 * 36 * 6, 6))>>)

mk_snap_time_formatter ==
    Config(36 * 36 * 36 * 6, 86400000,
        <<Value(TimeUnit_from5(6, "snap", 1, 36 * 36 * 36 * 6, 7))>>)

Presets ==
    {si_time_units, misalian_kunimunean_time_formatter,
     mk_span_time_formatter, mk_snap_time_formatter}

(***************************************************************************)
(* The reference of the tests of main.rs                                   *)
(***************************************************************************)

\* One day, in ms.
DayMs == 86400000

\* `x as u8`.
as_u8(x) == x % 256

\* test::senary_time_a: the lapses, lulls, moments and snaps of the total
\* truncated to an integer, each formatted in radix 6 with no padding.
senary_time_a(millis) ==
    LET remaining == u64_to_int(u64_div(u64_mul(u64(millis), u64(36 * 36 * 36 * 6)),
                                        u64(DayMs)))
        snaps == as_u8(remaining % 6)
        moments == as_u8((remaining \div 6) % 36)
        lulls == as_u8((remaining \div 216) % 36)
        lapses == as_u8(remaining \div 7776)
    IN  <<radix(u64(lapses), 6), radix(u64(lulls), 6), radix(u64(moments), 6),
          radix(u64(snaps), 6)>>

(***************************************************************************)
(* Inputs                                                                  *)
(***************************************************************************)

MaxNumer == 2
MaxDenom == 3
MaxValue == 3
MaxLimit == 3
MaxWidth == 2
MaxMs == 8

\* Radixes of the rendering units: the ends of 2..=36 and their neighbours.
Radixes == {0, 1, 2, 6, 10, 36, 37}

\* Limits of the rendering units: they give digit values of several digits.
BigLimits == {40, 1296}

\* The places of the arithmetic layouts: TimeUnit::new with the default
\* width (From<(&str, u32, u32)>).
Places ==
    {TimeUnit_new("place", v, l, DEFAULT_WIDTH) :
        v \in 0 .. MaxValue, l \in 0 .. MaxLimit}

\* The units of the rendering layouts: one base unit per digit value.
Units ==
    {TimeUnit_with_radix(r, "unit", 1, l, w) :
        r \in Radixes, l \in BigLimits, w \in 0 .. MaxWidth + 1}

\* One place, or two places around a literal, under every base; one
\* rendering unit under the base 1/1; the formatters of the repository.
Configs ==
    Presets
        \cup {Config(n, d, <<Value(u)>>) :
                n \in 1 .. MaxNumer, d \in 0 .. MaxDenom, u \in Places}
        \cup {Config(n, d, <<Value(u1), Literal(<<":">>), Value(u2)>>) :
                n \in 1 .. MaxNumer, d \in 0 .. MaxDenom, u1 \in Places, u2 \in Places}
        \cup {Config(1, 1, <<Value(u)>>) : u \in Units}

\* The ms the tests render.
TestMs == {0, 7679092, 49029000, 47521888, 81218884, 81246133, 130967197}

\* Small ms, the tests' ms, ms around the limits of the rendering units,
\* ms whose senary total is a whole multiple of a place, the ends of the day.
MsInputs ==
    (0 .. MaxMs) \cup TestMs
        \cup {35, 40, 1295, 1296, 25000, 150000, 2400000, 43200000,
              DayMs - 1, DayMs, DayMs + 1, 2 * DayMs}

(***************************************************************************)
(* The program: main constructs one formatter and renders one ms           *)
(***************************************************************************)

VARIABLES pc, formatter, ms, out

vars == <<pc, formatter, ms, out>>

NoFormatter == [base |-> [numer |-> <<0, 0>>, denom |-> <<0, 1>>], segments |-> <<>>]

Init ==
    /\ pc = "start"
    /\ formatter = NoFormatter
    /\ ms = 0
    /\ out = <<>>

\* TimeFormatter::new(base, spec): base.into() is Ratio::new, which panics
\* for a zero denominator; nothing else is checked.
New ==
    /\ pc = "start"
    /\ \E c \in Configs :
          IF c.d = 0
          THEN /\ pc' = "panicked"
               /\ UNCHANGED formatter
          ELSE /\ pc' = "ready"
               /\ formatter' = TimeFormatter_new(c.n, c.d, c.spec)
    /\ UNCHANGED <<ms, out>>

\* println!("{}", formatter.render(m)), and a panic inside render.
Render ==
    /\ pc = "ready"
    /\ \E m \in MsInputs :
          LET r == TimeFormatter_render(formatter, m)
          IN  /\ pc' = IF r.ok THEN "rendered" ELSE "panicked"
              /\ out' = r.text
              /\ ms' = m
    /\ UNCHANGED formatter

Next == New \/ Render

Spec == Init /\ [][Next]_vars

(***************************************************************************)
(* Definitions the properties share                                        *)
(***************************************************************************)

\* render was called on a constructed formatter and returned / panicked.
Rendered == pc = "rendered"

RenderPanicked == pc = "panicked" /\ formatter # NoFormatter

IsFormatter(c) == formatter = TimeFormatter_new(c.n, c.d, c.spec)

ValueSegments == {i \in 1 .. Len(formatter.segments) : formatter.segments[i].kind = "Value"}

\* The exact total n * ms / d of the state.
Total == TimeFormatter_total(formatter, ms)

\* The integer Segment::render hands to the digit renderer for unit u.
HandedDigit(u) == u64_to_int(ValueDisplay_int(Segment_value(u, Total)))

\* floor((n * ms / d) / p): one floor of the exact quotient.
FloorOfPlace(u) ==
    u64_div(u64_mul(formatter.base.numer, u64(ms)),
            u64_mul(formatter.base.denom, u64(u.value)))

\* floor((n * ms / d) / p) mod m: flooring first, reducing afterwards.
FloorThenMod(u) == u64_to_int(u64_rem(FloorOfPlace(u), u64(u.limit)))

\* The text of a layout whose places show the digits FloorThenMod gives.
RECURSIVE TextOfFloorThenMod(_, _)
TextOfFloorThenMod(segments, i) ==
    IF i > Len(segments) THEN <<>>
    ELSE LET seg == segments[i]
             here == IF seg.kind = "Literal" THEN seg.text
                     ELSE pad_integral(radix(u64(FloorThenMod(seg.unit)), seg.unit.radix),
                                       seg.unit.width)
         IN  here \o TextOfFloorThenMod(segments, i + 1)

\* The number of digits of v in radix b, zero counting as one digit.
RECURSIVE NumDigits(_, _)
NumDigits(v, b) == IF v < b THEN 1 ELSE 1 + NumDigits(v \div b, b)

Max(a, b) == IF a >= b THEN a ELSE b

\* The value of a digit character, and of a digit string read in radix b.
CharValue(c) == (CHOOSE i \in 1 .. Len(DigitChars) : DigitChars[i] = c) - 1

RECURSIVE ParseRadix(_, _)
ParseRadix(text, b) ==
    IF text = <<>> THEN 0
    ELSE ParseRadix(SubSeq(text, 1, Len(text) - 1), b) * b + CharValue(text[Len(text)])

\* A layout of one Value segment and nothing else.
OnePlace == Len(formatter.segments) = 1 /\ formatter.segments[1].kind = "Value"

\* A layout Value, Literal, Value.
TwoPlaces ==
    /\ Len(formatter.segments) = 3
    /\ formatter.segments[1].kind = "Value"
    /\ formatter.segments[3].kind = "Value"

(***************************************************************************)
(* C1                                                                      *)
(***************************************************************************)

C2_ZeroLimitNoWrap ==
    (/\ OnePlace
     /\ formatter.segments[1].unit.limit = 0
     /\ formatter.segments[1].unit.value > 0
     /\ formatter.segments[1].unit.radix \in 2 .. 36
     /\ pc \in {"rendered", "panicked"})
        => /\ pc = "rendered"
           /\ out = pad_integral(radix(FloorOfPlace(formatter.segments[1].unit),
                                       formatter.segments[1].unit.radix),
                                 formatter.segments[1].unit.width)

(***************************************************************************)
(* C3                                                                      *)
(***************************************************************************)

\* C3: the decimal h:m:s.ms layout of construct_hms_ms renders 0 as
\* "00:00:00.0", 7_679_092 as "02:07:59.092" and 49_029_000 as "13:37:09.0".
C3_HmsScenarios ==
    (IsFormatter(si_time_units) /\ pc \in {"rendered", "panicked"}) =>
        /\ pc = "rendered"
        /\ ms = 0 => out = <<"0", "0", ":", "0", "0", ":", "0", "0", ".", "0">>
        /\ ms = 7679092 => out = <<"0", "2", ":", "0", "7", ":", "5", "9", ".", "0", "9", "2">>
        /\ ms = 49029000 => out = <<"1", "3", ":", "3", "7", ":", "0", "9", ".", "0">>

(***************************************************************************)
(* C4                                                                      *)
(***************************************************************************)

\* The snaps of ms, truncated: floor(ms * 279_936 / 86_400_000).
Snaps(m) == u64_to_int(u64_div(u64_mul(u64(m), u64(36 * 36 * 36 * 6)), u64(DayMs)))

\* lapses:lulls:moments.snaps of the truncated total in senary, the lapses
\* in full (not reduced mod 36).
SenaryInFull(m) ==
    pad_integral(radix(u64(Snaps(m) \div 7776), 6), 2) \o <<":">>
        \o pad_integral(radix(u64((Snaps(m) \div 216) % 36), 6), 2) \o <<":">>
        \o pad_integral(radix(u64((Snaps(m) \div 6) % 36), 6), 2) \o <<".">>
        \o radix(u64(Snaps(m) % 6), 6)

\* C4: the extended senary preset renders lapses:lulls:moments.snaps of
\* floor(ms * 279_936 / 86_400_000) in senary, the leading lapse place in
\* full beyond one day; in particular the five results of senary_formatter.
C4_SenaryScenarios ==
    (IsFormatter(misalian_kunimunean_time_formatter) /\ pc \in {"rendered", "panicked"}) =>
        /\ pc = "rendered"
        /\ out = SenaryInFull(ms)
        /\ ms = 0 => out = <<"0", "0", ":", "0", "0", ":", "0", "0", ".", "0">>
        /\ ms = 47521888 => out = <<"3", "1", ":", "4", "4", ":", "4", "5", ".", "4">>
        /\ ms = 81218884 => out = <<"5", "3", ":", "5", "0", ":", "1", "4", ".", "1">>
        /\ ms = 81246133 => out = <<"5", "3", ":", "5", "0", ":", "4", "0", ".", "0">>
        /\ ms = 130967197 => out = <<"1", "3", "0", ":", "3", "2", ":", "3", "0", ".", "1">>

(***************************************************************************)
(* C5                                                                      *)
(***************************************************************************)

Delimiters == {":", "."}

NotDelimiter(c) == c \notin Delimiters

SenaryChars == {"0", "1", "2", "3", "4", "5"}

\* C5: for every ms the basic/snap preset renders what the extended senary
\* preset renders with ':' and '.' removed; within one day that is exactly
\* seven senary digits.
C5_BasicIsExtendedWithoutDelimiters ==
    (IsFormatter(mk_snap_time_formatter) /\ pc \in {"rendered", "panicked"}) =>
        LET ext == TimeFormatter_render(
                       TimeFormatter_new(misalian_kunimunean_time_formatter.n,
                                         misalian_kunimunean_time_formatter.d,
                                         misalian_kunimunean_time_formatter.spec), ms)
        IN  /\ pc = "rendered"
            /\ ext.ok
            /\ out = SelectSeq(ext.text, NotDelimiter)
            /\ ms < DayMs =>
                  /\ Len(out) = 7
                  /\ \A i \in 1 .. Len(out) : out[i] \in SenaryChars

\* C5 witness: the basic preset rendered 130_967_197 ms, more than a day.
C5_Witness ==
    /\ IsFormatter(mk_snap_time_formatter)
    /\ Rendered
    /\ ms = 130967197
    /\ out = <<"3", "0", "3", "2", "3", "0", "1">>

(***************************************************************************)
(* C6                                                                      *)
(***************************************************************************)

Place1 == formatter.segments[1].unit

Place2 == formatter.segments[3].unit

\* p1 = p2 * m2 with p1 > p2, both places rendered.
WellFormedTwoPlaces ==
    /\ Rendered
    /\ TwoPlaces
    /\ Place1.value = Place2.value * Place2.limit
    /\ Place1.value > Place2.value

\* digit1 * p1 + digit2 * p2
Recombined == HandedDigit(Place1) * Place1.value + HandedDigit(Place2) * Place2.value

\* Recombined <= total < Recombined + p2, for total = numer / denom.
RecombinedBrackets ==
    /\ ~u64_lt(Total.numer, u64_mul(u64(Recombined), Total.denom))
    /\ u64_lt(Total.numer, u64_mul(u64(Recombined + Place2.value), Total.denom))

\* total < p1 * m1: the leading place has not wrapped.
BelowLeadingRange ==
    u64_lt(Total.numer, u64_mul(u64(Place1.value * Place1.limit), Total.denom))

RECURSIVE LengthOf(_, _)
LengthOf(segments, i) ==
    IF i > Len(segments) THEN 0
    ELSE LET seg == segments[i]
             here == IF seg.kind = "Literal" THEN Len(seg.text)
                     ELSE Max(seg.unit.width,
                              NumDigits(HandedDigit(seg.unit), seg.unit.radix))
         IN  here + LengthOf(segments, i + 1)

C8_RadixRoundTrip ==
    (Rendered /\ OnePlace) =>
        LET u == formatter.segments[1].unit
        IN  /\ \A i \in 1 .. Len(out) :
                  \E k \in 1 .. u.radix : out[i] = DigitChars[k]
            /\ ParseRadix(out, u.radix) = HandedDigit(u)

\* C8 witness: radix 36, the digit value 35 padded to "0z".
C8_Witness ==
    /\ Rendered
    /\ OnePlace
    /\ formatter.segments[1].unit.radix = 36
    /\ HandedDigit(formatter.segments[1].unit) = 35
    /\ out = <<"0", "z">>

(***************************************************************************)
(* C9                                                                      *)
(***************************************************************************)

\* C9: a unit place with place_value = 0 or a radix outside 2..36 is
\* rejected at construction: a constructed formatter holds none, and no
\* render of a constructed formatter fails on one.
C9_RejectedAtConstruction ==
    formatter # NoFormatter =>
        \A i \in ValueSegments :
            /\ formatter.segments[i].unit.value # 0
            /\ formatter.segments[i].unit.radix \in 2 .. 36

(***************************************************************************)
(* C10                                                                     *)
(***************************************************************************)

\* senary_time_a with each field padded as the preset pads it.
PaddedReference(m) ==
    LET f == senary_time_a(m)
    IN  pad_integral(f[1], 2) \o <<":">> \o pad_integral(f[2], 2) \o <<":">>
            \o pad_integral(f[3], 2) \o <<".">> \o f[4]

SenaryRenderedInDay ==
    /\ IsFormatter(misalian_kunimunean_time_formatter)
    /\ Rendered
    /\ ms < DayMs

\* The total is a whole multiple of place_value * modulus of some place.
AtPlaceBoundary ==
    /\ Total.denom = <<0, 1>>
    /\ \E i \in ValueSegments :
          u64_is_zero(u64_rem(Total.numer,
                              u64(formatter.segments[i].unit.value
                                      * formatter.segments[i].unit.limit)))

\* C10 as stated: where the total is exactly divisible by place_value *
\* modulus of a place, the exact-rational render and the reference on the
\* truncated total disagree on some digit.
C10_DisagreeAtBoundaries ==
    (SenaryRenderedInDay /\ AtPlaceBoundary) => out # PaddedReference(ms)

\* C10 amended: within one day the exact-rational render and the reference
\* on the truncated total agree on every digit, at the boundaries too.
C10_AgreeWithinDay == SenaryRenderedInDay => out = PaddedReference(ms)

\* C10 witness: 2_400_000 ms is exactly 7776 snaps, one lapse.
C10_Witness ==
    /\ SenaryRenderedInDay
    /\ AtPlaceBoundary
    /\ ms = 2400000
    /\ out = <<"0", "1", ":", "0", "0", ":", "0", "0", ".", "0">>

====
